---- MODULE Spec2Model ----
(***************************************************************************)
(* A model of the kontrolatachometru_plus content script: the station      *)
(* lookup (extractStationCode, lookupStation, getInspectionLocation,       *)
(* addLocationToTable), the mileage pipeline (parseMileageData,            *)
(* detectAnomalies, createChart) and the init / MutationObserver loop.     *)
(*                                                                         *)
(* Texts that the code parses are sequences of one-character strings, so   *)
(* that trim, split, parseInt and the protocol regex are computed and not  *)
(* assumed.  Numbers produced by parseInt are records [nan, v].            *)
(* A Date is held as its getTime() value, in hours instead of              *)
(* milliseconds (TLC's integers are 32 bits wide).                         *)
(***************************************************************************)
EXTENDS Integers, Sequences, FiniteSets, TLC

VARIABLES
    pc,             \* "start" before the script body ran, "run" after it
    readyState,     \* document.readyState: "loading" or "complete"
    dclListener,    \* the DOMContentLoaded listener (once) is registered
    hasTable,       \* #inspectionTable (with thead tr and tbody) is in the document
    hasWrapper,     \* #inspectionTable_wrapper is in the document
    thCount,        \* number of host th cells in thead tr
    thLoc,          \* number of injected th[data-location-header] cells
    rows,           \* tbody rows, in document order
    charts,         \* the #mileage-chart-container elements in the document
    tooltips,       \* number of .chart-tooltip elements in document.body
    pending,        \* childList records are queued for the main MutationObserver
    modalObservers, \* observers registered by addLocationToDetailModal
    input,          \* the argument of the last getInspectionLocation call
    output,         \* its results
    afterPass,      \* history: an init pass completed and the host has not touched the DOM since
    tooltip,        \* the .chart-tooltip element: its display style and its content
    pointer         \* where the last mousemove over the canvas was, NoPointer after mouseleave

vars == <<pc, readyState, dclListener, hasTable, hasWrapper, thCount, thLoc, rows,
          charts, tooltips, pending, modalObservers, input, output, afterPass,
          tooltip, pointer>>

----------------------------------------------------------------------------
(* Bounds of the model *)

MaxRows == 2
MaxSeriesRows == 3
MaxLocCells == 3
MaxObservers == 3

----------------------------------------------------------------------------
(* Characters and numbers *)

Digit == {"0", "1", "2", "3", "4", "5", "6", "7", "8", "9"}

\* /\s/ matches the space and the non-breaking space (written "~" here)
WhiteSpace == {" ", "~"}

DigitVal(c) ==
    CASE c = "0" -> 0 [] c = "1" -> 1 [] c = "2" -> 2 [] c = "3" -> 3 [] c = "4" -> 4
      [] c = "5" -> 5 [] c = "6" -> 6 [] c = "7" -> 7 [] c = "8" -> 8 [] c = "9" -> 9

DigitChar(n) ==
    CASE n = 0 -> "0" [] n = 1 -> "1" [] n = 2 -> "2" [] n = 3 -> "3" [] n = 4 -> "4"
      [] n = 5 -> "5" [] n = 6 -> "6" [] n = 7 -> "7" [] n = 8 -> "8" [] n = 9 -> "9"

NaN == [nan |-> TRUE, v |-> 0]
Num(n) == [nan |-> FALSE, v |-> n]

\* JavaScript's !x for a number (or undefined): NaN and 0 are falsy
Falsy(x) == x.nan \/ x.v = 0

RECURSIVE SkipWs(_)
SkipWs(s) == IF s # <<>> /\ Head(s) \in WhiteSpace THEN SkipWs(Tail(s)) ELSE s

RECURSIVE DropTrailingWs(_)
DropTrailingWs(s) ==
    IF s # <<>> /\ s[Len(s)] \in WhiteSpace THEN DropTrailingWs(SubSeq(s, 1, Len(s) - 1)) ELSE s

\* String.prototype.trim
Trim(s) == DropTrailingWs(SkipWs(s))

\* text.replace(/\s/g, '').replace(/ /g, '')
RECURSIVE RemoveWs(_)
RemoveWs(s) ==
    IF s = <<>> THEN <<>>
    ELSE IF Head(s) \in WhiteSpace THEN RemoveWs(Tail(s))
    ELSE <<Head(s)>> \o RemoveWs(Tail(s))

\* the longest prefix of decimal digits
RECURSIVE DigitPrefix(_)
DigitPrefix(s) ==
    IF s # <<>> /\ Head(s) \in Digit THEN <<Head(s)>> \o DigitPrefix(Tail(s)) ELSE <<>>

RECURSIVE DigitsValue(_)
DigitsValue(ds) ==
    IF ds = <<>> THEN 0
    ELSE 10 * DigitsValue(SubSeq(ds, 1, Len(ds) - 1)) + DigitVal(ds[Len(ds)])

\* Number.parseInt(s, 10): leading white space, an optional sign, then the longest
\* run of digits; what follows the digits is ignored; no digit at all gives NaN
parseInt(s) ==
    LET t == SkipWs(s)
        signed == t # <<>> /\ Head(t) \in {"-", "+"}
        body == IF signed THEN Tail(t) ELSE t
        ds == DigitPrefix(body)
    IN  IF ds = <<>> THEN NaN
        ELSE IF signed /\ Head(t) = "-" THEN Num(0 - DigitsValue(ds))
        ELSE Num(DigitsValue(ds))

\* String.prototype.split(sep) for a one-character separator
RECURSIVE Split(_, _)
Split(s, sep) ==
    IF s = <<>> THEN << <<>> >>
    ELSE LET rest == Split(Tail(s), sep)
         IN  IF Head(s) = sep THEN << <<>> >> \o rest
             ELSE << <<Head(s)>> \o rest[1] >> \o Tail(rest)

\* Math.round(a / b) for b > 0: the nearest integer, a half rounded up
MathRound(a, b) == (2 * a + b) \div (2 * b)

Min2(a, b) == IF a < b THEN a ELSE b
Max2(a, b) == IF a > b THEN a ELSE b

----------------------------------------------------------------------------
(* Dates: new Date(y, m - 1, d) and getTime() *)

HoursPerDay == 24
DaysPerYear == 365
\* a Date holds at most 100,000,000 days either side of the epoch (else Invalid Date)
MaxDateDays == 100000000

DaysBeforeYear(yy) ==
    365 * yy + ((yy - 1) \div 4) - ((yy - 1) \div 100) + ((yy - 1) \div 400)

IsLeap(yy) == (yy % 4 = 0 /\ yy % 100 # 0) \/ yy % 400 = 0

\* days of the year before month mm (0 = January)
DaysBeforeMonth(mm, yy) ==
    <<0, 31, 59, 90, 120, 151, 181, 212, 243, 273, 304, 334>>[mm + 1]
        + (IF IsLeap(yy) /\ mm >= 2 THEN 1 ELSE 0)

\* The day count of new Date(y, m - 1, d): a year 0..99 means 1900 + y, a month
\* outside 0..11 carries into the year, and the day (any integer) is added as is.
DayNumber(y, m, d) ==
    LET yr == IF y >= 0 /\ y <= 99 THEN 1900 + y ELSE y
        yy == yr + ((m - 1) \div 12)
        mm == (m - 1) % 12
    IN  DaysBeforeYear(yy) + DaysBeforeMonth(mm, yy) + d - 1 - DaysBeforeYear(1970)

\* The Date is local midnight.  The host site is Czech: local time is UTC+1, and
\* UTC+2 in summer time, taken here as the months April to October.
TimezoneOffsetHours(y, m) ==
    LET mm == (m - 1) % 12 IN IF mm >= 3 /\ mm <= 9 THEN 2 ELSE 1

\* date.getTime(), in hours
NewDate(y, m, d) == DayNumber(y, m, d) * HoursPerDay - TimezoneOffsetHours(y, m)

\* Number.isNaN(date.getTime())
InvalidDate(y, m, d) ==
    DayNumber(y, m, d) > MaxDateDays \/ DayNumber(y, m, d) < 0 - MaxDateDays

----------------------------------------------------------------------------
(* parseMileageData *)

\* dayMap.get(key): the position of the entry with this key, 0 when there is none
MapIndex(dayMap, key) ==
    IF \E i \in 1..Len(dayMap) : dayMap[i].dateText = key
    THEN CHOOSE i \in 1..Len(dayMap) : dayMap[i].dateText = key
    ELSE 0

\* whether the new reading replaces the existing one of the same key
Replaces(km, existingKm) == km > existingKm

\* which parsed mileage values make the row be skipped
RejectKm(km) == km.nan

\* the body of rows.forEach: one row folded into dayMap
ParseRow(dayMap, row) ==
    IF ~row.hasDateCell \/ ~row.hasKmSpan THEN dayMap
    ELSE
        LET dateText == Trim(row.dateText)
            kmText == RemoveWs(row.kmText)
            km == parseInt(kmText)
            parts == Split(dateText, ".")
            part(i) == IF i <= Len(parts) THEN parseInt(parts[i]) ELSE NaN
            d == part(1)
            m == part(2)
            y == part(3)
        IN  IF Falsy(d) \/ Falsy(m) \/ Falsy(y) THEN dayMap
            ELSE IF RejectKm(km) \/ InvalidDate(y.v, m.v, d.v) THEN dayMap
            ELSE
                LET date == NewDate(y.v, m.v, d.v)
                    point == [date |-> date, km |-> km.v, dateText |-> dateText]
                    k == MapIndex(dayMap, dateText)
                IN  IF k = 0 THEN Append(dayMap, point)
                    ELSE IF Replaces(km.v, dayMap[k].km) THEN [dayMap EXCEPT ![k] = point]
                    ELSE dayMap

RECURSIVE ParseRows(_, _)
ParseRows(dayMap, rs) ==
    IF rs = <<>> THEN dayMap ELSE ParseRows(ParseRow(dayMap, Head(rs)), Tail(rs))

\* the comparator of data.sort: a before b
DateBefore(a, b) == a.date - b.date < 0

\* insert p after the last element that is not after it (the sort is stable)
RECURSIVE InsertSorted(_, _)
InsertSorted(sorted, p) ==
    IF sorted = <<>> THEN <<p>>
    ELSE IF DateBefore(p, Head(sorted)) THEN <<p>> \o sorted
    ELSE <<Head(sorted)>> \o InsertSorted(Tail(sorted), p)

RECURSIVE SortByDate(_)
SortByDate(data) ==
    IF data = <<>> THEN <<>>
    ELSE InsertSorted(SortByDate(SubSeq(data, 1, Len(data) - 1)), data[Len(data)])

parseMileageData(hasTbl, rs) ==
    IF ~hasTbl THEN <<>> ELSE SortByDate(ParseRows(<<>>, rs))

----------------------------------------------------------------------------
(* detectAnomalies *)

\* a detector that also flags a reading equal to the one before
IsDropOrEqual(prev, cur) == cur.km <= prev.km

\* cur.km < prev.km
IsDrop(prev, cur) == cur.km < prev.km

\* data.slice(1).reduce: j is the position of cur in the 0-based array
RECURSIVE AnomaliesFrom(_, _)
AnomaliesFrom(data, j) ==
    IF j >= Len(data) THEN <<>>
    ELSE LET prev == data[j]
             cur == data[j + 1]
             here == IF IsDrop(prev, cur)
                     THEN << [index |-> j, from |-> prev, to |-> cur, diff |-> prev.km - cur.km] >>
                     ELSE <<>>
         IN  here \o AnomaliesFrom(data, j + 1)

detectAnomalies(data) == AnomaliesFrom(data, 1)

----------------------------------------------------------------------------
(* formatNumber and the statistics of createChart *)

RECURSIVE ToDigits(_)
ToDigits(n) == IF n < 10 THEN <<DigitChar(n)>> ELSE ToDigits(n \div 10) \o <<DigitChar(n % 10)>>

\* a space before every digit that is followed by a multiple of three digits
RECURSIVE GroupThousands(_)
GroupThousands(ds) ==
    IF Len(ds) <= 1 THEN ds
    ELSE <<Head(ds)>> \o (IF (Len(ds) - 1) % 3 = 0 THEN <<" ">> ELSE <<>>) \o GroupThousands(Tail(ds))

\* num.toString().replace(/\B(?=(\d{3})+(?!\d))/g, ' '): the sign is not a word
\* character, so no space follows it
formatNumber(num) ==
    IF num < 0 THEN <<"-">> \o GroupThousands(ToDigits(0 - num)) ELSE GroupThousands(ToDigits(num))

RECURSIVE SeqMin(_)
SeqMin(xs) == IF Len(xs) = 1 THEN xs[1] ELSE Min2(xs[1], SeqMin(Tail(xs)))

RECURSIVE SeqMax(_)
SeqMax(xs) == IF Len(xs) = 1 THEN xs[1] ELSE Max2(xs[1], SeqMax(Tail(xs)))

KmValues(data) == [i \in 1..Len(data) |-> data[i].km]

\* Math.max(1, Math.round((lastDate.getTime() - firstDate.getTime()) / (1000 * 60 * 60 * 24)))
DaysDiff(data) == Max2(1, MathRound(data[Len(data)].date - data[1].date, HoursPerDay))

\* an average that drops the fraction instead of rounding it
AvgPerDayFloor(totalDistance, daysDiff) == totalDistance \div daysDiff

\* Math.round(totalDistance / daysDiff)
AvgPerDay(totalDistance, daysDiff) == MathRound(totalDistance, daysDiff)

\* Math.round(avgPerDay * 365)
AvgPerYear(avgPerDay) == MathRound(avgPerDay * DaysPerYear, 1)

KmUnit == <<" ", "k", "m">>

\* the value shown with the label 'Prvni zaznam' (first record)
FirstRecordValue(data) == SeqMin(KmValues(data))

\* the value shown with the label 'Posledni zaznam' (last record)
LastRecordValue(data) == SeqMax(KmValues(data))

\* statItems: the four (value, label) pairs of the statistics panel
StatItems(data, totalDistance, avgPerYear) ==
    << [value |-> formatNumber(FirstRecordValue(data)) \o KmUnit, label |-> "Prvni zaznam"],
       [value |-> formatNumber(LastRecordValue(data)) \o KmUnit, label |-> "Posledni zaznam"],
       [value |-> formatNumber(totalDistance) \o KmUnit, label |-> "Celkovy narust"],
       [value |-> <<"~">> \o formatNumber(avgPerYear) \o KmUnit \o <<"/", "r", "o", "k">>,
        label |-> "Prumerny najezd"] >>

\* The container that createChart(data) builds for a non-empty series.  listener
\* tells whether addTooltip gave the canvas its mousemove handler, which it does
\* only when no .chart-tooltip exists yet.
ChartContainer(data, nTooltips) ==
    LET minKm == SeqMin(KmValues(data))
        maxKm == SeqMax(KmValues(data))
        totalDistance == maxKm - minKm
        daysDiff == DaysDiff(data)
        avgPerDay == AvgPerDay(totalDistance, daysDiff)
        avgPerYear == AvgPerYear(avgPerDay)
        anomalies == detectAnomalies(data)
    IN  [data |-> data, minKm |-> minKm, maxKm |-> maxKm, totalDistance |-> totalDistance,
         daysDiff |-> daysDiff, avgPerDay |-> avgPerDay, avgPerYear |-> avgPerYear,
         stats |-> StatItems(data, totalDistance, avgPerYear),
         anomalies |-> anomalies, warning |-> anomalies # <<>>,
         listener |-> nTooltips = 0]

\* createChart's three early returns
ChartCreated(data, wrapper, existing) == data # <<>> /\ wrapper /\ existing = <<>>

----------------------------------------------------------------------------
(* The chart's scales and its tooltip.  A canvas coordinate is a fraction:   *)
(* every x of one chart is kept over the denominator XDen(data), every y     *)
(* over YDen(data), so that distances compare exactly.                       *)

\* canvas.offsetWidth || 800, canvas.offsetHeight || 350: the fallback size
CssWidth == 800
CssHeight == 350
PaddingTop == 30
PaddingRight == 30
PaddingBottom == 60
PaddingLeft == 80
TooltipRadius == 30

chartWidth == CssWidth - PaddingLeft - PaddingRight
chartHeight == CssHeight - PaddingTop - PaddingBottom

Abs(n) == IF n < 0 THEN -n ELSE n

RECURSIVE GCD(_, _)
GCD(a, b) == IF b = 0 THEN Abs(a) ELSE GCD(b, a % Abs(b))

\* maxDate - minDate || 1, of the first and the last point
dateRange(data) ==
    LET d == data[Len(data)].date - data[1].date IN IF d = 0 THEN 1 ELSE d

\* maxKm - minKm || 1
kmRange(data) ==
    LET d == SeqMax(KmValues(data)) - SeqMin(KmValues(data)) IN IF d = 0 THEN 1 ELSE d

XDen(data) == dateRange(data) \div GCD(dateRange(data), chartWidth)
YDen(data) == (12 * kmRange(data)) \div GCD(12 * kmRange(data), chartHeight)

\* xScale(date) * XDen(data)
xScale(data, date) ==
    PaddingLeft * XDen(data)
        + (date - data[1].date) * (chartWidth \div GCD(dateRange(data), chartWidth))

\* yScale(km) * YDen(data); kmPadding is a tenth of kmRange, so the fraction of
\* the height is (10 * (km - minKm) + kmRange) / (12 * kmRange)
yScale(data, km) ==
    (PaddingTop + chartHeight) * YDen(data)
        - (10 * (km - SeqMin(KmValues(data))) + kmRange(data))
            * (chartHeight \div GCD(12 * kmRange(data), chartHeight))

\* Math.hypot(x - xScale(p.date), y - yScale(p.km)) squared, times
\* (XDen(data) * YDen(data)) squared
Dist2(data, p, at) ==
    LET dx == (at.x * XDen(data) - xScale(data, p.date)) * YDen(data)
        dy == (at.y * YDen(data) - yScale(data, p.km)) * XDen(data)
    IN  dx * dx + dy * dy

\* dist < 30, on the same scale
WithinRadius(data, d2) ==
    d2 < TooltipRadius * TooltipRadius * XDen(data) * XDen(data) * YDen(data) * YDen(data)

\* dist < acc.dist && dist < 30
Closer(data, d2, acc) == ((~acc.some) \/ d2 < acc.dist) /\ WithinRadius(data, d2)

\* the reduce over data, from { point: null, dist: Infinity }
RECURSIVE ClosestFrom(_, _, _, _)
ClosestFrom(data, at, i, acc) ==
    IF i > Len(data) THEN acc
    ELSE LET d2 == Dist2(data, data[i], at)
         IN  ClosestFrom(data, at, i + 1,
                 IF Closer(data, d2, acc)
                 THEN [some |-> TRUE, point |-> data[i], dist |-> d2]
                 ELSE acc)

closest(data, at) == ClosestFrom(data, at, 1, [some |-> FALSE])

\* what the mousemove handler of a chart drawn from data leaves in the tooltip
TooltipAfterMove(data, at, old) ==
    LET c == closest(data, at)
    IN  IF c.some
        THEN [display |-> "block", dateText |-> c.point.dateText,
              kmText |-> formatNumber(c.point.km) \o KmUnit]
        ELSE [old EXCEPT !.display = "none"]

----------------------------------------------------------------------------
(* Station lookup *)

None == [some |-> FALSE]
Some(x) == [some |-> TRUE, val |-> x]

\* The two reference tables (stk_data.json, sme_data.json); a sample of records.
stkData ==
    << [id |-> <<"1", "2">>, provozovatel |-> "STK Alfa", street |-> "Dlouha 1",
        town |-> "Brno", zip |-> "60200"],
       [id |-> <<"3", "4", "5">>, provozovatel |-> "STK Beta", street |-> "Kratka 2",
        town |-> "Praha", zip |-> "11000"] >>

smeData ==
    << [id |-> <<"1", "2">>, provozovatel |-> "SME Gama", street |-> "Nova 3",
        town |-> "Plzen", zip |-> "30100"],
       [id |-> <<"7">>, provozovatel |-> "SME Delta", street |-> "Stara 4",
        town |-> "Olomouc", zip |-> "77900"] >>

\* new Map(entries.map((entry) => [entry.id, entry])).get(key): the last entry of that id
MapGet(entries, key) ==
    LET hits == {i \in 1..Len(entries) : entries[i].id = key}
    IN  IF hits = {} THEN None
        ELSE Some(entries[CHOOSE i \in hits : \A j \in hits : j <= i])

\* s starts with the characters lit
StartsWith(s, lit) == Len(s) >= Len(lit) /\ SubSeq(s, 1, Len(lit)) = lit

Drop(s, n) == SubSeq(s, n + 1, Len(s))

\* \d{2} then '-'
TwoDigitsDash(s) == Len(s) >= 3 /\ s[1] \in Digit /\ s[2] \in Digit /\ s[3] = "-"

\* a matcher without the closing anchor: what follows the last digits is ignored
extractStationCodeUnanchored(protocolNumber) ==
    IF protocolNumber = <<>> THEN None
    ELSE IF ~StartsWith(protocolNumber, <<"C", "Z", "-">>) THEN None
    ELSE
        LET r1 == Drop(protocolNumber, 3)
            code == DigitPrefix(r1)
            r2 == Drop(r1, Len(code))
        IN  IF code = <<>> \/ ~StartsWith(r2, <<"-">>) THEN None
            ELSE
                LET r3 == Drop(r2, 1)
                    r4 == Drop(r3, 3)
                    r5 == Drop(r4, 3)
                IN  IF ~TwoDigitsDash(r3) \/ ~TwoDigitsDash(r4) THEN None
                    ELSE IF DigitPrefix(r5) = <<>> THEN None
                    ELSE Some(code)

\* protocolNumber.match(/^CZ-(\d+)-\d{2}-\d{2}-\d+$/), read left to right; a run of
\* digits is always followed by a non-digit or the end, so \d+ never gives back
extractStationCode(protocolNumber) ==
    IF protocolNumber = <<>> THEN None
    ELSE IF ~StartsWith(protocolNumber, <<"C", "Z", "-">>) THEN None
    ELSE
        LET r1 == Drop(protocolNumber, 3)
            code == DigitPrefix(r1)
            r2 == Drop(r1, Len(code))
        IN  IF code = <<>> \/ ~StartsWith(r2, <<"-">>) THEN None
            ELSE
                LET r3 == Drop(r2, 1)
                    r4 == Drop(r3, 3)
                    r5 == Drop(r4, 3)
                IN  IF ~TwoDigitsDash(r3) \/ ~TwoDigitsDash(r4) THEN None
                    ELSE IF r5 = <<>> \/ DigitPrefix(r5) # r5 THEN None
                    ELSE Some(code)

\* inspectionType === 'STK' ? stkMap : smeMap
SelectMap(inspectionType) == IF inspectionType = "STK" THEN stkData ELSE smeData

lookupStation(stationCode, inspectionType) ==
    IF stationCode = <<>> THEN None ELSE MapGet(SelectMap(inspectionType), stationCode)

formatStationInfo(station) ==
    station.provozovatel \o ", " \o station.street \o ", " \o station.zip \o " " \o station.town

getInspectionLocation(protocolNumber, inspectionType) ==
    LET stationCode == extractStationCode(protocolNumber)
    IN  IF ~stationCode.some THEN None
        ELSE LET station == lookupStation(stationCode.val, inspectionType)
             IN  IF ~station.some THEN None ELSE Some(formatStationInfo(station.val))

----------------------------------------------------------------------------
(* addLocationToTable *)

\* the early returns: no table, or the header already holds the marked cell
TableActs(tbl, nThLoc) == tbl /\ nThLoc = 0

\* thirdHeader?.insertAdjacentElement: there is a third th to insert before
HeaderInserted(nTh, nThLoc) == nTh + nThLoc >= 3

\* the text of the new cell of a row
LocationText(row) ==
    LET protocolNumber == Trim(row.protocol)
        inspectionType == row.kind
    IN  IF protocolNumber # <<>> /\ inspectionType # ""
        THEN LET location == getInspectionLocation(protocolNumber, inspectionType)
             IN  IF location.some THEN location.val ELSE "-"
        ELSE "-"

\* thirdCell?.insertAdjacentElement: the row has a third td (of any kind)
CellInserted(row) == row.tds + Len(row.loc) >= 3

AddCell(row) ==
    IF CellInserted(row) THEN [row EXCEPT !.loc = <<LocationText(row)>> \o @] ELSE row

----------------------------------------------------------------------------
(* init: parseMileageData, createChart, addLocationToTable, addLocationToDetailModal *)

\* observing: the main MutationObserver is connected while the pass runs
\* queued: records that were queued before the pass and stay queued
init(observing, queued) ==
    LET data == parseMileageData(hasTable, rows)
        created == ChartCreated(data, hasWrapper, charts)
        acts == TableActs(hasTable, thLoc)
        header == acts /\ HeaderInserted(thCount, thLoc)
        newRows == IF acts THEN [i \in 1..Len(rows) |-> AddCell(rows[i])] ELSE rows
        mutated == created \/ header \/ newRows # rows
    IN  /\ modalObservers < MaxObservers
        /\ \A i \in 1..Len(rows) : Len(rows[i].loc) < MaxLocCells
        /\ charts' = IF created THEN Append(charts, ChartContainer(data, tooltips)) ELSE charts
        /\ tooltips' = IF created /\ tooltips = 0 THEN tooltips + 1 ELSE tooltips
        /\ thLoc' = IF header THEN thLoc + 1 ELSE thLoc
        /\ rows' = newRows
        /\ modalObservers' = modalObservers + 1
        /\ pending' = (queued \/ (observing /\ mutated))
        /\ afterPass' = TRUE
        /\ UNCHANGED <<hasTable, hasWrapper, thCount, input, output, tooltip, pointer>>

\* the script body when the document is already parsed: init(), then the observer
MainRunInit ==
    /\ pc = "start"
    /\ readyState # "loading"
    /\ init(FALSE, FALSE)
    /\ pc' = "run"
    /\ UNCHANGED <<readyState, dclListener>>

\* the script body while the document is loading: init is deferred
MainDefer ==
    /\ pc = "start"
    /\ readyState = "loading"
    /\ pc' = "run"
    /\ dclListener' = TRUE
    /\ UNCHANGED <<readyState, hasTable, hasWrapper, thCount, thLoc, rows, charts, tooltips,
                   pending, modalObservers, input, output, afterPass, tooltip, pointer>>

\* the document finishes loading; the once-listener runs init
DOMContentLoaded ==
    /\ pc = "run"
    /\ readyState = "loading"
    /\ dclListener
    /\ readyState' = "complete"
    /\ dclListener' = FALSE
    /\ init(TRUE, pending)
    /\ UNCHANGED pc

\* the main observer's callback, with every queued record
ObserverCallback ==
    /\ pc = "run"
    /\ pending
    /\ IF hasTable /\ charts = <<>>
       THEN init(TRUE, FALSE)
       ELSE /\ pending' = FALSE
            /\ UNCHANGED <<hasTable, hasWrapper, thCount, thLoc, rows, charts, tooltips,
                           modalObservers, input, output, afterPass, tooltip, pointer>>
    /\ UNCHANGED <<pc, readyState, dclListener>>

----------------------------------------------------------------------------
(* The host page: the rows it renders *)

Row(dateText, kmText, tds, protocol, kind) ==
    [hasDateCell |-> TRUE, dateText |-> dateText, hasKmSpan |-> TRUE, kmText |-> kmText,
     tds |-> tds, protocol |-> protocol, kind |-> kind, loc |-> <<>>]

\* D.M.YYYY texts: 1 January 2023 written two ways, 3 January and 1 April 2023
GoodDates == {<<"1", ".", "1", ".", "2", "0", "2", "3">>, <<"0", "1", ".", "0", "1", ".", "2", "0", "2", "3">>, <<"3", ".", "1", ".", "2", "0", "2", "3">>, <<"1", ".", "4", ".", "2", "0", "2", "3">>}

\* mileage texts: digits, with and without a thousands space
GoodKms == {<<"1", " ", "0", "0", "0">>, <<"1", "0", "0", "3">>, <<"9", "9", "8">>}

ProtoStk12 == <<"C", "Z", "-", "1", "2", "-", "2", "3", "-", "0", "5", "-", "7">>
ProtoSme7 == <<"C", "Z", "-", "7", "-", "2", "3", "-", "0", "5", "-", "1">>

\* rows for the mileage pipeline: every good date with every good mileage, and
\* rows with a broken or unusual date or mileage text
SeriesRows ==
    { Row(d, k, 3, ProtoStk12, "STK") : d \in GoodDates, k \in GoodKms }
    \cup { Row(<<"1", ".", "x", ".", "2", "0", "2", "3">>, <<"1", "0", "0", "3">>, 3, ProtoStk12, "STK"),
           Row(<<"1", ".", "1">>, <<"1", "0", "0", "3">>, 3, ProtoStk12, "STK"),
           Row(<<" ", "3", ".", "1", ".", "2", "0", "2", "3", " ">>, <<"1", "~", "0", "0", "3">>, 3, ProtoStk12, "STK"),
           Row(<<"3", ".", "1", ".", "2", "0", "2", "3">>, <<"-", "5">>, 3, ProtoStk12, "STK"),
           Row(<<"1", ".", "4", ".", "2", "0", "2", "3">>, <<"1", "2", "a", "b", "c">>, 3, ProtoStk12, "STK"),
           Row(<<"3", ".", "1", ".", "2", "0", "2", "3">>, <<>>, 3, ProtoStk12, "STK"),
           [Row(<<"1", ".", "1", ".", "2", "0", "2", "3">>, <<"1", "0", "0", "3">>, 3, ProtoStk12, "STK") EXCEPT !.hasKmSpan = FALSE] }

\* rows for the page as a whole: two rows with a reading, one of them with a
\* station that is found, and two rows without a reading, of three and two cells
PageRows ==
    { Row(<<"1", ".", "1", ".", "2", "0", "2", "3">>, <<"1", "0", "0", "3">>, 3, ProtoStk12, "STK"),
      Row(<<"3", ".", "1", ".", "2", "0", "2", "3">>, <<"9", "9", "8">>, 4, ProtoSme7, "EK"),
      [Row(<<"1", ".", "x", ".", "2", "0", "2", "3">>, <<"1", " ", "0", "0", "0">>, 3, <<>>, "") EXCEPT !.hasKmSpan = FALSE],
      [Row(<<"3", ".", "1", ".", "2", "0", "2", "3">>, <<"1", " ", "0", "0", "0">>, 2, ProtoStk12, "SME") EXCEPT !.hasDateCell = FALSE] }

SeqsUpTo(S, n) == UNION { [1..k -> S] : k \in 0..n }

\* the numbers of header cells the host renders
HeadCells == {2, 4}

----------------------------------------------------------------------------
(* The host page: its changes to the DOM.  Each is a childList change under  *)
(* document.body, so a record is queued once the observer is connected.      *)

HostChange ==
    /\ pc = "run"
    /\ pending' = TRUE
    /\ afterPass' = FALSE
    /\ UNCHANGED <<pc, readyState, dclListener, modalObservers, input, output, tooltip, pointer>>

\* the results arrive: the table (and perhaps its wrapper) is inserted
HostLoadTable ==
    /\ ~hasTable
    /\ HostChange
    /\ hasTable' = TRUE
    /\ hasWrapper' \in BOOLEAN
    /\ thCount' \in HeadCells
    /\ rows' \in SeqsUpTo(PageRows, MaxRows)
    /\ UNCHANGED <<thLoc, charts, tooltips>>

\* the host redraws the body with new rows
HostSetRows ==
    /\ hasTable
    /\ HostChange
    /\ rows' \in SeqsUpTo(PageRows, MaxRows) \ {rows}
    /\ UNCHANGED <<hasTable, hasWrapper, thCount, thLoc, charts, tooltips>>

\* the host adds one row to the body
HostAppendRow ==
    /\ hasTable
    /\ Len(rows) < MaxRows
    /\ HostChange
    /\ \E r \in PageRows : rows' = Append(rows, r)
    /\ UNCHANGED <<hasTable, hasWrapper, thCount, thLoc, charts, tooltips>>

\* the host removes the chart container (it redraws the part of the page that holds it)
HostRemoveChart ==
    /\ charts # <<>>
    /\ HostChange
    /\ charts' = <<>>
    /\ UNCHANGED <<hasTable, hasWrapper, thCount, thLoc, rows, tooltips>>

NoPointer == [over |-> FALSE]
HiddenTooltip == [display |-> "none", dateText |-> <<>>, kmText |-> <<>>]

\* The pointer moves over the canvas of the chart on the page.  Only a canvas
\* that addTooltip gave a handler reacts; the handler writes the tooltip's
\* innerHTML, which is a childList mutation under document.body.
PointerPositions ==
    { [over |-> TRUE, x |-> 80, y |-> 268], [over |-> TRUE, x |-> 100, y |-> 250],
      [over |-> TRUE, x |-> 90, y |-> 60], [over |-> TRUE, x |-> 770, y |-> 260],
      [over |-> TRUE, x |-> 400, y |-> 150] }

MouseMove ==
    \E at \in PointerPositions :
        /\ pc = "run"
        /\ charts # <<>>
        /\ at # pointer
        /\ pointer' = at
        /\ tooltip' = IF charts[1].listener
                      THEN TooltipAfterMove(charts[1].data, at, tooltip)
                      ELSE tooltip
        /\ pending' = (pending \/ (charts[1].listener /\ closest(charts[1].data, at).some))
        /\ UNCHANGED <<pc, readyState, dclListener, hasTable, hasWrapper, thCount, thLoc,
                       rows, charts, tooltips, modalObservers, input, output, afterPass>>

MouseLeave ==
    /\ pc = "run"
    /\ charts # <<>>
    /\ pointer # NoPointer
    /\ pointer' = NoPointer
    /\ tooltip' = IF charts[1].listener THEN [tooltip EXCEPT !.display = "none"] ELSE tooltip
    /\ UNCHANGED <<pc, readyState, dclListener, hasTable, hasWrapper, thCount, thLoc, rows,
                   charts, tooltips, pending, modalObservers, input, output, afterPass>>

----------------------------------------------------------------------------
(* The page *)

NoInput == [protocolNumber |-> <<>>, inspectionType |-> ""]
NoOutput == [called |-> FALSE]

InitScript ==
    /\ pc = "start"
    /\ dclListener = FALSE
    /\ charts = <<>>
    /\ tooltips = 0
    /\ thLoc = 0
    /\ pending = FALSE
    /\ modalObservers = 0
    /\ afterPass = FALSE
    /\ tooltip = HiddenTooltip
    /\ pointer = NoPointer

Init ==
    /\ InitScript
    /\ readyState \in {"loading", "complete"}
    /\ hasTable \in BOOLEAN
    /\ hasWrapper \in BOOLEAN
    /\ thCount \in HeadCells
    /\ rows \in SeqsUpTo(PageRows, MaxRows)
    /\ hasTable = FALSE => (hasWrapper = FALSE /\ rows = <<>> /\ thCount = 2)
    /\ input = NoInput
    /\ output = NoOutput

Next ==
    \/ MainRunInit
    \/ MainDefer
    \/ DOMContentLoaded
    \/ ObserverCallback
    \/ HostLoadTable
    \/ HostSetRows
    \/ HostAppendRow
    \/ HostRemoveChart

Spec == Init /\ [][Next]_vars

\* The same page with a pointer over the chart.
TooltipNext ==
    \/ MainRunInit
    \/ MainDefer
    \/ DOMContentLoaded
    \/ ObserverCallback
    \/ HostLoadTable
    \/ HostSetRows
    \/ HostAppendRow
    \/ HostRemoveChart
    \/ MouseMove
    \/ MouseLeave

TooltipSpec == Init /\ [][TooltipNext]_vars

----------------------------------------------------------------------------
(* The mileage pipeline on its own: one pass over a table of up to          *)
(* MaxSeriesRows rows drawn from SeriesRows.                                 *)

SeriesInit ==
    /\ InitScript
    /\ readyState = "complete"
    /\ hasTable = TRUE
    /\ hasWrapper = TRUE
    /\ thCount = 4
    /\ rows \in SeqsUpTo(SeriesRows, MaxSeriesRows)
    /\ input = NoInput
    /\ output = NoOutput

SeriesNext == MainRunInit

SeriesSpec == SeriesInit /\ [][SeriesNext]_vars

----------------------------------------------------------------------------
(* The station lookup on its own: one call of getInspectionLocation on a    *)
(* protocol text put together from well-formed and broken pieces.           *)

ProtocolPrefixes == {<<"C", "Z", "-">>, <<"c", "z", "-">>, <<"X", "C", "Z", "-">>, <<"C", "Z">>}
ProtocolCodes == {<<"1", "2">>, <<"7">>, <<"3", "4", "5">>, <<"9", "9">>, <<>>, <<"1", "x">>}
ProtocolYears == {<<"2", "3">>, <<"2">>, <<"2", "3", "5">>, <<"2", "x">>}
ProtocolMonths == {<<"0", "5">>, <<"5">>}
ProtocolSerials == {<<"7">>, <<"0", "0", "0", "7">>, <<>>, <<"7", "x">>, <<"7", " ">>}

ProtocolTexts ==
    { pre \o code \o <<"-">> \o yy \o <<"-">> \o mm \o <<"-">> \o nr :
        pre \in ProtocolPrefixes, code \in ProtocolCodes, yy \in ProtocolYears,
        mm \in ProtocolMonths, nr \in ProtocolSerials }
    \cup { <<>>, <<"C", "Z", "-">> \o <<"1", "2">>, <<"C", "Z", "-">> \o <<"1", "2">> \o <<"-">> \o <<"2", "3">> \o <<"-">> \o <<"7">> }

InspectionTypes == {"STK", "SME", "EK"}

LookupInit ==
    /\ InitScript
    /\ readyState = "complete"
    /\ hasTable = FALSE
    /\ hasWrapper = FALSE
    /\ thCount = 2
    /\ rows = <<>>
    /\ input \in [protocolNumber : ProtocolTexts, inspectionType : InspectionTypes]
    /\ output = NoOutput

\* a caller asks for the location of the input
CallGetInspectionLocation ==
    /\ ~output.called
    /\ output' = [called |-> TRUE,
                  code |-> extractStationCode(input.protocolNumber),
                  location |-> getInspectionLocation(input.protocolNumber, input.inspectionType)]
    /\ UNCHANGED <<pc, readyState, dclListener, hasTable, hasWrapper, thCount, thLoc, rows,
                   charts, tooltips, pending, modalObservers, input, afterPass, tooltip, pointer>>

LookupNext == CallGetInspectionLocation

LookupSpec == LookupInit /\ [][LookupNext]_vars

----------------------------------------------------------------------------
(* Vocabulary of the properties *)

Range(f) == {f[i] : i \in DOMAIN f}

AllDigits(s) == s # <<>> /\ \A i \in 1..Len(s) : s[i] \in Digit

\* the text is D.M.YYYY-style: three runs of digits separated by '.'
WellFormedDateText(t) ==
    LET parts == Split(Trim(t), ".")
    IN  Len(parts) = 3 /\ \A i \in 1..3 : AllDigits(parts[i])

\* the text is a non-negative integer once its white space is removed
WellFormedKmText(t) == AllDigits(RemoveWs(t))

WellFormedRow(row) ==
    row.hasDateCell /\ row.hasKmSpan /\ WellFormedDateText(row.dateText)
        /\ WellFormedKmText(row.kmText)

\* the row contributes a point when it is parsed on its own
Accepted(row) == ParseRow(<<>>, row) # <<>>
PointOf(row) == ParseRow(<<>>, row)[1]

\* the calendar day of a point: its local midnight, in whole days
DayOf(point) == (point.date + 2) \div HoursPerDay

StrictlyAscending(data) == \A i \in 1..(Len(data) - 1) : data[i].date < data[i + 1].date

\* the numbers of injected elements of each kind
Elements == <<Len(charts), tooltips, thLoc, [i \in 1..Len(rows) |-> Len(rows[i].loc)]>>

AtMostOneOfEach ==
    /\ Len(charts) <= 1
    /\ tooltips <= 1
    /\ thLoc <= 1
    /\ \A i \in 1..Len(rows) : Len(rows[i].loc) <= 1

\* the step is an init pass: every pass, and nothing else, registers a modal observer
PassStep == modalObservers' = modalObservers + 1

----------------------------------------------------------------------------
(* C1 *)

\* C1: for rows whose date text is D.M.YYYY-style and whose mileage is numeric, the
\* series built by parseMileageData is strictly ascending by parsed date, so no two
\* points share a calendar date (also when the date texts differ only in leading zeros).
C1_StrictlyAscendingByDate ==
    (\A i \in 1..Len(rows) : WellFormedRow(rows[i]))
        => \A c \in Range(charts) : StrictlyAscending(c.data)

----------------------------------------------------------------------------
(* C2 *)

\* C2: for every day that has two or more accepted rows, the series holds exactly one
\* point of that day, and its km is the maximum mileage among the rows of that day,
\* whatever the order of the rows.
C2_OnePointPerDayWithMaxKm ==
    LET acc == {i \in 1..Len(rows) : Accepted(rows[i])}
    IN  \A c \in Range(charts) : \A i \in acc :
            LET day == DayOf(PointOf(rows[i]))
                same == {j \in acc : DayOf(PointOf(rows[j])) = day}
                of == {k \in 1..Len(c.data) : DayOf(c.data[k]) = day}
            IN  Cardinality(same) >= 2 =>
                    /\ Cardinality(of) = 1
                    /\ \A k \in of :
                        /\ \E j \in same : c.data[k].km = PointOf(rows[j]).km
                        /\ \A j \in same : c.data[k].km >= PointOf(rows[j]).km

----------------------------------------------------------------------------
(* C3 *)

\* C3: for every adjacent pair (p[i], p[i+1]) of a series, detectAnomalies reports an
\* anomaly with index i+1, from = p[i], to = p[i+1] exactly when p[i+1].km < p[i].km;
\* its diff is p[i].km - p[i+1].km > 0; every drop is reported on its own, and the
\* anomalies come in ascending index order.
C3_AnomalyIffDrop ==
    \A c \in Range(charts) :
        LET p == c.data
            an == c.anomalies
        IN  /\ \A j \in 1..(Len(p) - 1) :
                (p[j + 1].km < p[j].km) <=> (\E k \in 1..Len(an) : an[k].index = j)
            /\ \A k \in 1..Len(an) :
                /\ an[k].index \in 1..(Len(p) - 1)
                /\ an[k].from = p[an[k].index]
                /\ an[k].to = p[an[k].index + 1]
                /\ an[k].diff = p[an[k].index].km - p[an[k].index + 1].km
                /\ an[k].diff > 0
            /\ \A k \in 1..(Len(an) - 1) : an[k].index < an[k + 1].index

\* a chart whose series drops twice in a row: two anomalies, at index 1 and at index 2
C3_TwoConsecutiveDrops ==
    \E c \in Range(charts) :
        /\ Len(c.data) = 3
        /\ Len(c.anomalies) = 2
        /\ c.anomalies[1].index = 1
        /\ c.anomalies[2].index = 2

----------------------------------------------------------------------------
(* C4 *)

\* C4: running init again with no host change to the DOM in between adds no element,
\* and leaves at most one chart container, one tooltip, one injected header cell and
\* one injected cell per body row, for every shape of the table.
C4_SecondPassAddsNothing ==
    [][(afterPass /\ PassStep) => (Elements' = Elements /\ AtMostOneOfEach')]_vars

----------------------------------------------------------------------------
(* C5 *)

\* C5: a row contributes a point only if its date text is numeric day, month and year
\* separated by '.' and its mileage text, white space removed, is a non-negative
\* integer; so every point of every built series has km >= 0.
C5_OnlyWellFormedRowsContribute ==
    /\ afterPass => \A i \in 1..Len(rows) : Accepted(rows[i]) => WellFormedRow(rows[i])
    /\ \A c \in Range(charts) : \A k \in 1..Len(c.data) : c.data[k].km >= 0

----------------------------------------------------------------------------
(* C6 *)

\* C6: after the host changed the rows and every queued mutation record has been
\* handled, the displayed chart is the one of the rows now in the table.
C6_ChartFollowsRows ==
    (pc = "run" /\ ~pending /\ charts # <<>>)
        => \A c \in Range(charts) : c.data = parseMileageData(hasTable, rows)

----------------------------------------------------------------------------
(* C7 *)

\* the text the location cell of a row is to show
ExpectedLocationText(row) ==
    LET code == extractStationCode(Trim(row.protocol))
        table == IF row.kind = "STK" THEN stkData ELSE smeData
        hits == IF code.some /\ row.kind # ""
                THEN {e \in Range(table) : e.id = code.val} ELSE {}
    IN  IF hits = {} THEN "-"
        ELSE LET e == CHOOSE e \in hits : TRUE
             IN  e.provozovatel \o ", " \o e.street \o ", " \o e.zip \o " " \o e.town

\* C7: after addLocationToTable completed on a table with a header row and a body, the
\* header holds exactly one injected header cell and every body row exactly one
\* injected cell, with the station's address when the lookup succeeds and the
\* placeholder otherwise.
C7_OneLocationCellPerRow ==
    (afterPass /\ hasTable) =>
        /\ thLoc = 1
        /\ \A i \in 1..Len(rows) :
            /\ Len(rows[i].loc) = 1
            /\ rows[i].loc[1] = ExpectedLocationText(rows[i])

----------------------------------------------------------------------------
(* C8 *)

\* C8: for a non-empty series, minKm and maxKm are the least and the greatest km of
\* all points, totalIncrease = maxKm - minKm, daySpan = max(1, days between the first
\* and the last point), avgPerDay = round(totalIncrease / daySpan) (a half rounds up),
\* avgPerYear = round(avgPerDay * 365); daySpan is never 0, and a single-point or
\* same-day series has avgPerDay = totalIncrease.
C8_Statistics ==
    \A c \in Range(charts) :
        LET p == c.data
            kms == {p[i].km : i \in 1..Len(p)}
            days == DayOf(p[Len(p)]) - DayOf(p[1])
        IN  /\ c.minKm \in kms /\ \A k \in kms : c.minKm <= k
            /\ c.maxKm \in kms /\ \A k \in kms : c.maxKm >= k
            /\ c.totalDistance = c.maxKm - c.minKm
            /\ c.daysDiff = (IF days > 1 THEN days ELSE 1)
            /\ c.daysDiff >= 1
            /\ 2 * c.avgPerDay * c.daysDiff - c.daysDiff <= 2 * c.totalDistance
            /\ 2 * c.totalDistance < 2 * c.avgPerDay * c.daysDiff + c.daysDiff
            /\ c.avgPerYear = c.avgPerDay * 365
            /\ days = 0 => c.avgPerDay = c.totalDistance

\* a chart over more than one day whose increase per day ends in a half, and rounds up
C8_HalfRoundsUp ==
    \E c \in Range(charts) :
        /\ c.daysDiff > 1
        /\ 2 * c.totalDistance = (2 * c.avgPerDay - 1) * c.daysDiff

----------------------------------------------------------------------------
(* C9 *)

\* C9: the value shown under the 'first record' label is the km of the
\* chronologically first point and the value under the 'last record' label is the km
\* of the chronologically last point, also when the series has decreases.
C9_FirstAndLastReadingShown ==
    (\A i \in 1..Len(rows) : WellFormedRow(rows[i])) => \A c \in Range(charts) :
        /\ c.stats[1].label = "Prvni zaznam"
        /\ c.stats[1].value = formatNumber(c.data[1].km) \o KmUnit
        /\ c.stats[2].label = "Posledni zaznam"
        /\ c.stats[2].value = formatNumber(c.data[Len(c.data)].km) \o KmUnit

----------------------------------------------------------------------------
(* C10 *)

\* t is CZ-<n digits>-<2 digits>-<2 digits>-<digits>, and nothing else
ProtocolShape(t, n) ==
    /\ n >= 1
    /\ Len(t) >= n + 11
    /\ t[1] = "C" /\ t[2] = "Z" /\ t[3] = "-"
    /\ \A i \in 4..(3 + n) : t[i] \in Digit
    /\ t[4 + n] = "-"
    /\ t[5 + n] \in Digit /\ t[6 + n] \in Digit
    /\ t[7 + n] = "-"
    /\ t[8 + n] \in Digit /\ t[9 + n] \in Digit
    /\ t[10 + n] = "-"
    /\ \A i \in (11 + n)..Len(t) : t[i] \in Digit

\* C10: extractStationCode returns the first digit group when the whole text is
\* CZ-<digits>-<2 digits>-<2 digits>-<digits> and nothing for every other text;
\* getInspectionLocation returns nothing when no code is extracted or the table of
\* the type has no station of that id, and else the formatted record of that id.
C10_CodeAndLocation ==
    output.called =>
        LET t == input.protocolNumber
            ns == {n \in 1..Len(t) : ProtocolShape(t, n)}
            table == IF input.inspectionType = "STK" THEN stkData ELSE smeData
            hits == IF output.code.some
                    THEN {e \in Range(table) : e.id = output.code.val} ELSE {}
        IN  /\ output.code.some <=> ns # {}
            /\ \A n \in ns : output.code.val = SubSeq(t, 4, 3 + n)
            /\ output.location.some => output.code.some
            /\ input.inspectionType \in {"STK", "SME"} =>
                /\ output.location.some <=> hits # {}
                /\ output.location.some =>
                    \E e \in hits : output.location.val =
                        e.provozovatel \o ", " \o e.street \o ", " \o e.zip \o " " \o e.town

\* a well-formed protocol text whose station is found, and its address returned
C10_StationFound ==
    /\ output.called
    /\ output.code.some
    /\ output.location.some
    /\ input.inspectionType = "SME"

----------------------------------------------------------------------------
\* The points of the series within the tooltip radius of a pointer position.
PointsNear(data, at) == {i \in 1..Len(data) : WithinRadius(data, Dist2(data, data[i], at))}

\* The pointer moved to a position over the canvas of the chart on the page.
PointerMoved == pointer' # pointer /\ pointer' # NoPointer /\ charts # <<>>

\* C11: whenever the pointer moves over the canvas of the displayed chart, the
\* tooltip afterwards shows the date and km of a point of that chart's series
\* nearest to the pointer if some point is within 30px, and is hidden if none
\* is; this holds for a chart rebuilt after the host removed an earlier one.
C11_TooltipFollowsDisplayedChart ==
    [][PointerMoved =>
          LET data == charts[1].data
              near == PointsNear(data, pointer')
          IN  IF near = {}
              THEN tooltip'.display = "none"
              ELSE /\ tooltip'.display = "block"
                   /\ \E i \in near :
                        /\ \A j \in 1..Len(data) :
                              Dist2(data, data[i], pointer') <= Dist2(data, data[j], pointer')
                        /\ tooltip'.dateText = data[i].dateText
                        /\ tooltip'.kmText = formatNumber(data[i].km) \o KmUnit]_vars

\* the same, for the charts whose canvas addTooltip gave a handler
C11_FirstChartTooltip ==
    [][(PointerMoved /\ charts[1].listener) =>
          LET data == charts[1].data
              near == PointsNear(data, pointer')
          IN  IF near = {}
              THEN tooltip'.display = "none"
              ELSE /\ tooltip'.display = "block"
                   /\ \E i \in near :
                        /\ \A j \in 1..Len(data) :
                              Dist2(data, data[i], pointer') <= Dist2(data, data[j], pointer')
                        /\ tooltip'.dateText = data[i].dateText
                        /\ tooltip'.kmText = formatNumber(data[i].km) \o KmUnit]_vars

----------------------------------------------------------------------------
\* An init pass run by the main observer's callback.
ObserverPass == PassStep /\ pc' = pc /\ readyState' = readyState

\* C12: an observer-triggered pass that runs on a DOM the host has not touched
\* since the previous pass queues no mutation record for the observer, so the
\* chain of passes that follows one host change ends; this includes the pages
\* on which no chart can be created and the tables whose header has fewer than
\* three cells.
C12_RepeatedPassQueuesNothing ==
    [][(afterPass /\ ObserverPass) => ~pending']_vars

\* the same, for the tables whose header has at least three cells
C12_QuiescentWithThreeHeaderCells ==
    [][(afterPass /\ ObserverPass /\ thCount >= 3) => ~pending']_vars

----------------------------------------------------------------------------
\* The table of stations of an inspection type: none for a type that is
\* neither STK nor SME.
OwnTable(inspectionType) ==
    CASE inspectionType = "STK" -> stkData
      [] inspectionType = "SME" -> smeData
      [] OTHER -> <<>>

\* C13: the record that a lookup returns comes from the table of the given
\* inspection type: the STK table for STK, the SME table for SME, and for any
\* other type no record is returned, so that the placeholder is shown.
C13_OwnTableOnly ==
    output.called =>
        /\ output.location.some =>
              \E i \in 1..Len(OwnTable(input.inspectionType)) :
                  /\ output.code.some
                  /\ OwnTable(input.inspectionType)[i].id = output.code.val
                  /\ output.location.val = formatStationInfo(OwnTable(input.inspectionType)[i])
        /\ input.inspectionType \notin {"STK", "SME"} => ~output.location.some

\* the same, for the types STK and SME
C13_OwnTableForStkAndSme ==
    (output.called /\ input.inspectionType \in {"STK", "SME"} /\ output.location.some) =>
        \E i \in 1..Len(OwnTable(input.inspectionType)) :
            /\ output.code.some
            /\ OwnTable(input.inspectionType)[i].id = output.code.val
            /\ output.location.val = formatStationInfo(OwnTable(input.inspectionType)[i])

----------------------------------------------------------------------------
\* C14: however many init passes have run, at most one modal-watching
\* MutationObserver is registered on document.body.
C14_AtMostOneModalObserver == modalObservers <= 1

============================================================================
